---- MODULE Spec2Model ----
(***************************************************************************)
(* Pulltube YouTube helper extension: the extraction-and-handoff pipeline  *)
(* of background.js (Orchestrator, permission gate, archival download     *)
(* with retries), the Collector of content.js and the prompt of            *)
(* permission.js, as one state machine.                                    *)
(*                                                                         *)
(* A step of the machine is one run-to-completion turn of a JavaScript     *)
(* event loop: the code between two awaits of one async function, or one   *)
(* event of the host runtime (a reply, a timer, a download event, a click).*)
(*                                                                         *)
(* Strings are sequences of tokens: "https://", a host, a path, "?", "&",  *)
(* a parameter key ("v=", "list=", "index="), a value, " " and "\n".       *)
(***************************************************************************)
EXTENDS Integers, Sequences, FiniteSets, TLC

\* ------------------------------------------------------------------ bounds

\* Concurrent invocations of the action-click listener.
NumInv == 2

\* ------------------------------------------------------- program constants

\* content.js: const maxAttempts = 10
maxAttempts == 10

\* background.js, FileSaverService.save: const maxAttempts = 3
saveMaxAttempts == 3

\* ------------------------------------------------------------------ strings

NL == "\n"
SP == " "
HTTPS == "https://"
WWW == "www.youtube.com"
BARE == "youtube.com"
OTHERHOST == "example.com"
Hosts == {WWW, BARE, OTHERHOST}
WATCH == "/watch"
PLAYLIST == "/playlist"
QM == "?"
AMP == "&"
KV == "v="
KLIST == "list="
KINDEX == "index="
Keys == {KV, KLIST, KINDEX}
NULLTOK == "null"
SCHEME == "pulltube://"
Whitespace == {SP, NL}

\* null, where a string is expected.
Null == <<"<null>">>

\* undefined, where a list of strings is expected.
Undefined == <<Null>>

\* Index of the first token of s that is in set S, or 0.
IndexOf(s, S) ==
  IF \E k \in 1..Len(s) : s[k] \in S
  THEN CHOOSE k \in 1..Len(s) : s[k] \in S /\ \A j \in 1..(k-1) : s[j] \notin S
  ELSE 0

\* String.prototype.split(sep): the pieces of s between occurrences of sep.
RECURSIVE Split(_, _)
Split(s, sep) ==
  LET k == IndexOf(s, {sep})
  IN  IF k = 0 THEN <<s>>
      ELSE <<SubSeq(s, 1, k - 1)>> \o Split(SubSeq(s, k + 1, Len(s)), sep)

\* Array.prototype.join(sep).
RECURSIVE Join(_, _)
Join(ss, sep) ==
  IF Len(ss) = 0 THEN <<>>
  ELSE IF Len(ss) = 1 THEN ss[1]
  ELSE ss[1] \o <<sep>> \o Join(Tail(ss), sep)

\* String.prototype.trim().
RECURSIVE Trim(_)
Trim(s) ==
  IF Len(s) = 0 THEN s
  ELSE IF s[1] \in Whitespace THEN Trim(Tail(s))
  ELSE IF s[Len(s)] \in Whitespace THEN Trim(SubSeq(s, 1, Len(s) - 1))
  ELSE s

\* Array.prototype.filter(x => x): the non-empty strings of ss, in order.
RECURSIVE FilterNonEmpty(_)
FilterNonEmpty(ss) ==
  IF Len(ss) = 0 THEN <<>>
  ELSE IF Len(ss[1]) = 0 THEN FilterNonEmpty(Tail(ss))
  ELSE <<ss[1]>> \o FilterNonEmpty(Tail(ss))

\* String.prototype.includes('youtube.com').
IncludesYoutube(s) == \E k \in 1..Len(s) : s[k] \in {WWW, BARE}

\* new URL(s) succeeds: after stripping surrounding white space the string is an
\* absolute URL (scheme and host).
UrlParses(s) ==
  LET t == Trim(s)
  IN  Len(t) >= 2 /\ t[1] = HTTPS /\ t[2] \in Hosts

\* The query of a parsed URL, as its "&"-separated segments.
QuerySegments(s) ==
  LET t == Trim(s)
      q == IndexOf(t, {QM})
  IN  IF q = 0 \/ q = Len(t) THEN <<>>
      ELSE Split(SubSeq(t, q + 1, Len(t)), AMP)

\* URLSearchParams.has(key).
SearchParamsHas(s, key) ==
  \E k \in 1..Len(QuerySegments(s)) :
    Len(QuerySegments(s)[k]) > 0 /\ QuerySegments(s)[k][1] = key

\* URLSearchParams.get(key): the first value of key, or null.
SearchParamsGet(s, key) ==
  LET segs == QuerySegments(s)
      hit(k) == Len(segs[k]) > 0 /\ segs[k][1] = key
  IN  IF \E k \in 1..Len(segs) : hit(k)
      THEN Tail(segs[CHOOSE k \in 1..Len(segs) :
                       hit(k) /\ \A j \in 1..(k-1) : ~hit(j)])
      ELSE Null

\* `${value}` of a searchParams.get result: null prints as "null".
Interpolate(v) == IF v = Null THEN <<NULLTOK>> ELSE v

\* The map callback of openUrlsInPulltube: the cleaned URL, or the raw string
\* when new URL throws.
CleanUrl(u) ==
  IF UrlParses(u)
  THEN <<HTTPS, WWW, WATCH, QM, KV>> \o Interpolate(SearchParamsGet(u, KV))
  ELSE u

\* The cleaning of a batch with the result in the opposite order.
CleanUrlsReversed(urlString) ==
  LET parts == Split(urlString, NL)
      n == Len(parts)
  IN  FilterNonEmpty([k \in 1..n |-> CleanUrl(parts[n + 1 - k])])

\* urlString.split('\n').map(clean).filter(url => url)
CleanUrls(urlString) ==
  LET parts == Split(urlString, NL)
  IN  FilterNonEmpty([k \in 1..Len(parts) |-> CleanUrl(parts[k])])

\* The content of the file without the trim of each entry.
CreateContentNoTrim(urls) == Join(FilterNonEmpty(urls), NL)

\* URLContentCreator.create: trim each, drop the empty ones, join with "\n".
CreateContent(urls) ==
  Join(FilterNonEmpty([k \in 1..Len(urls) |-> Trim(urls[k])]), NL)

\* anchor.href.split('&')[0]
TruncateHref(href) == Split(href, AMP)[1]

\* ------------------------------------------------------------------- state

Inv == 1..NumInv

VARIABLES
  o,             \* per invocation: the Orchestrator's run (handleUrl, openUrlsInPulltube)
  coll,          \* per invocation: the Collector's run of getAllPlaylistUrls
  dom,           \* per invocation: the playlist elements of the trigger tab's page
  store,         \* chrome.storage.local
  prompt,        \* per invocation: the permission window it opened
  listeners,     \* invocations whose permission listener is registered
  msgs,          \* permission messages sent by prompts, not yet delivered
  saver,         \* per invocation: the call of FileSaverService.save it made
  dl             \* per invocation: the download handle its save was given

orchVars == <<o, store, prompt, listeners, msgs>>
collVars == <<coll, dom>>
saveVars == <<saver, dl>>
vars == <<o, coll, dom, store, prompt, listeners, msgs, saver, dl>>

\* ------------------------------------------------- archival: FileSaverService

\* A save that has not been called.
SaverIdle ==
  [pc |-> "idle", urls |-> Undefined, content |-> <<>>, attempts |-> 0,
   result |-> "none", error |-> 0, monId |-> 0, listening |-> FALSE,
   requests |-> 0, backoffs |-> 0, errors |-> <<>>, events |-> <<>>,
   listenerThrew |-> FALSE]

DlNone == [id |-> 0, state |-> "none"]

\* !urls?.length
NoUrls(urls) == urls = Undefined \/ Len(urls) = 0

\* A catch block that rethrows one attempt later.
FailAttemptLate(s, err) ==
  LET n == s.attempts + 1
      t == [s EXCEPT !.attempts = n, !.errors = Append(@, err),
                     !.monId = 0, !.listening = FALSE]
  IN  IF n > saveMaxAttempts
      THEN [t EXCEPT !.pc = "threw", !.result = "threw", !.error = err]
      ELSE [t EXCEPT !.pc = "backoff"]

\* The catch block of the retry loop: count the attempt, rethrow the error on
\* the last one, otherwise wait before the next attempt. An error is identified
\* by the request that raised it.
FailAttempt(s, err) ==
  LET n == s.attempts + 1
      t == [s EXCEPT !.attempts = n, !.errors = Append(@, err),
                     !.monId = 0, !.listening = FALSE]
  IN  IF n = saveMaxAttempts
      THEN [t EXCEPT !.pc = "threw", !.result = "threw", !.error = err]
      ELSE [t EXCEPT !.pc = "backoff"]

\* this.downloader.download(content, filename) is called: one download request.
RequestDownload(s) == [s EXCEPT !.requests = @ + 1, !.pc = "download"]

\* FileSaverService.save up to its first await.
SaveStart(urls) ==
  LET s == [SaverIdle EXCEPT !.urls = urls]
  IN  IF NoUrls(urls) THEN [s EXCEPT !.pc = "returned", !.result = "false"]
      ELSE LET content == CreateContent(urls)
           IN  IF Len(content) = 0
               THEN [s EXCEPT !.pc = "returned", !.result = "false"]
               ELSE RequestDownload([s EXCEPT !.content = content])

\* Whether the identifier `listener` is bound where the monitor's callback
\* evaluates it. It is a const of waitForCompletion's executor and the callback is
\* built in _createListener, so it is not: removeListener(listener) throws a
\* ReferenceError before resolve or reject is reached.
ListenerInScope == FALSE

\* The monitor's callback on a delta of download `id`.
OnChanged(s, id, kind) ==
  IF ~(s.listening /\ s.monId = id) THEN s
  ELSE LET seen == [s EXCEPT !.events = Append(@, kind)]
       IN  IF ~ListenerInScope THEN [seen EXCEPT !.listenerThrew = TRUE]
           ELSE IF kind = "complete"
           THEN [seen EXCEPT !.listening = FALSE, !.pc = "returned", !.result = "true"]
           ELSE FailAttempt(seen, s.requests)

\* The handle of invocation i's k-th request.
Handle(i, k) == (i * (saveMaxAttempts + 1)) + k

\* The promise of downloader.download settles: with a handle, and the monitor
\* starts listening; or rejected (chrome.downloads is absent, lastError is set,
\* or no handle came back).
DownloadSettled(i) ==
  /\ saver[i].pc = "download"
  /\ \E started \in BOOLEAN :
       IF started
       THEN /\ saver' = [saver EXCEPT ![i] =
                          [@ EXCEPT !.pc = "monitor",
                                    !.monId = Handle(i, saver[i].requests),
                                    !.listening = TRUE]]
            /\ dl' = [dl EXCEPT ![i] =
                       [id |-> Handle(i, saver[i].requests), state |-> "in_progress"]]
       ELSE /\ saver' = [saver EXCEPT ![i] = FailAttempt(@, @.requests)]
            /\ dl' = dl
  /\ UNCHANGED <<orchVars, collVars>>

\* The 1000 ms timer of the retry loop fires: next attempt.
BackoffElapsed(i) ==
  /\ saver[i].pc = "backoff"
  /\ saver' = [saver EXCEPT ![i] = RequestDownload([@ EXCEPT !.backoffs = @ + 1])]
  /\ UNCHANGED dl
  /\ UNCHANGED <<orchVars, collVars>>

\* chrome.downloads.onChanged fires for invocation i's download: every
\* registered monitor callback runs.
DownloadChanged(i) ==
  /\ dl[i].state = "in_progress"
  /\ \E kind \in {"complete", "interrupted"} :
       /\ dl' = [dl EXCEPT ![i].state = kind]
       /\ saver' = [j \in Inv |-> OnChanged(saver[j], dl[i].id, kind)]
  /\ UNCHANGED <<orchVars, collVars>>

\* --------------------------------------------------- Collector: content.js

\* The structural selectors of checkForPlaylist, in the order of its list.
Selectors ==
  <<"ytd-playlist-video-renderer", "ytd-playlist-panel-video-renderer",
    "#playlist-items">>

\* An anchor of a page element.
Anchor(id, href) == [id |-> id, href |-> href]

\* A page element: what it is, and its anchors in document order.
Element(sel, anchors) == [sel |-> sel, anchors |-> anchors]

\* The href a playlist page gives the video `v` at position `n`.
ItemHref(v, n) ==
  <<HTTPS, WWW, WATCH, QM, KV, v, AMP, KLIST, "PL", AMP, KINDEX, n>>

\* The pages the trigger tab can turn out to show once rendered.
Pages ==
  { <<Element(Selectors[1], <<Anchor("video-title", ItemHref("a", "1"))>>),
      Element(Selectors[1], <<Anchor("video-title", ItemHref("b", "2"))>>)>>,
    <<Element(Selectors[2], <<Anchor("wc-endpoint", ItemHref("b", "1"))>>),
      Element("ytd-compact-video-renderer",
              <<Anchor("thumbnail", ItemHref("c", "9"))>>),
      Element(Selectors[1], <<>>),
      Element(Selectors[1], <<Anchor("thumbnail", ItemHref("a", "3"))>>)>> }

\* A lookup that takes the elements of the first selector of the list that
\* matches anything.
QuerySelectorFirstMatch(d) ==
  LET Hit(k) == \E n \in 1..Len(d) : d[n].sel = Selectors[k]
      MatchesTop(e) ==
        \E k \in 1..Len(Selectors) :
          /\ Hit(k)
          /\ \A j \in 1..(k - 1) : ~Hit(j)
          /\ e.sel = Selectors[k]
  IN  SelectSeq(d, MatchesTop)

\* document.querySelectorAll([...].join(',')): every element that matches any of
\* the selectors, in document order.
QuerySelectorAll(d) ==
  LET Matches(e) == \E k \in 1..Len(Selectors) : e.sel = Selectors[k]
  IN  SelectSeq(d, Matches)

\* The result of a querySelector that matches nothing.
NoAnchor == [id |-> "null", href |-> <<>>]

\* item.querySelector(a): the first of the anchors of the item that match (hits,
\* in document order), or null.
FirstAnchor(hits) == IF Len(hits) = 0 THEN NoAnchor ELSE hits[1]

\* The map callback of checkForPlaylist: a#video-title, else a#wc-endpoint, else
\* a[href*="watch"]; the href up to its first "&", or '' without an anchor.
ExtractUrl(item) ==
  LET IsTitle(a) == a.id = "video-title"
      IsWc(a) == a.id = "wc-endpoint"
      IsWatch(a) == \E k \in 1..Len(a.href) : a.href[k] = WATCH
      title == FirstAnchor(SelectSeq(item.anchors, IsTitle))
      wc == FirstAnchor(SelectSeq(item.anchors, IsWc))
      watch == FirstAnchor(SelectSeq(item.anchors, IsWatch))
      anchor == IF title # NoAnchor THEN title
                ELSE IF wc # NoAnchor THEN wc
                ELSE watch
  IN  IF anchor = NoAnchor \/ Len(anchor.href) = 0 THEN <<>>
      ELSE TruncateHref(anchor.href)

\* Array.from(playlistItems).map(...).filter(url => url)
ExtractUrls(items) ==
  FilterNonEmpty([k \in 1..Len(items) |-> ExtractUrl(items[k])])

CollIdle == [pc |-> "idle", attempts |-> 0, checks |-> 0, reply |-> Null]

\* A Collector run whose promise the background no longer waits for.
CollDone == [CollIdle EXCEPT !.pc = "done"]

\* checkForPlaylist: one look at the page. It resolves with the URLs of the
\* items found, or schedules another look, or resolves empty; a resolved promise
\* is answered with sendResponse({ urls: urls.join('\n') }).
CheckForPlaylist(c, d) ==
  LET items == QuerySelectorAll(d)
      seen == [c EXCEPT !.checks = @ + 1]
  IN  IF Len(items) > 0
      THEN [seen EXCEPT !.pc = "replied", !.reply = Join(ExtractUrls(items), NL)]
      ELSE IF c.attempts < maxAttempts
      THEN [seen EXCEPT !.pc = "waiting", !.attempts = @ + 1]
      ELSE [seen EXCEPT !.pc = "replied", !.reply = Join(<<>>, NL)]

\* The page finishes rendering its playlist.
Render(i) ==
  /\ o[i].pc = "extracting"
  /\ coll[i].pc \in {"idle", "waiting"}
  /\ dom[i] = <<>>
  /\ \E page \in Pages : dom' = [dom EXCEPT ![i] = page]
  /\ UNCHANGED <<coll, orchVars, saveVars>>

\* The content script receives { action: "getPlaylistUrls" }: getAllPlaylistUrls
\* starts and looks at the page for the first time.
CollectorReceive(i) ==
  /\ o[i].pc = "extracting"
  /\ coll[i].pc = "idle"
  /\ coll' = [coll EXCEPT ![i] = CheckForPlaylist(@, dom[i])]
  /\ UNCHANGED <<dom, orchVars, saveVars>>

\* The 1000 ms timer of the Collector fires: it looks again.
CollectorPoll(i) ==
  /\ coll[i].pc = "waiting"
  /\ coll' = [coll EXCEPT ![i] = CheckForPlaylist(@, dom[i])]
  /\ UNCHANGED <<dom, orchVars, saveVars>>

\* ------------------------------------------------ Orchestrator: background.js

\* The URLs of the tabs the action button is clicked on: a single video, a video
\* of a playlist, a playlist page, and a page of another site.
PageUrls ==
  { <<HTTPS, BARE, WATCH, QM, KV, "abc123">>,
    <<HTTPS, WWW, WATCH, QM, KV, "a", AMP, KLIST, "PL">>,
    <<HTTPS, WWW, PLAYLIST, QM, KLIST, "PL">>,
    <<HTTPS, OTHERHOST, WATCH>> }

\* An invocation that has not been triggered.
OrchIdle ==
  [pc |-> "idle", url |-> <<>>, resident |-> FALSE, path |-> "none",
   response |-> Null, extracted |-> <<>>, batch |-> <<>>, allowAtStart |-> FALSE, perm |-> "none", urls |-> <<>>,
   idx |-> 0, pulltubeTab |-> "none",
   opened |-> 0, probes |-> 0, injections |-> 0, requests |-> 0,
   storeCalls |-> 0, prompts |-> 0, listens |-> 0, tabCalls |-> 0,
   dispatched |-> <<>>, targets |-> <<>>, creates |-> 0, updates |-> 0,
   resolved |-> 0, resolvedBy |-> 0, stored |-> FALSE, popup |-> FALSE,
   hasTab |-> TRUE, focus |-> "trigger", currentTab |-> "none",
   pinged |-> "none", delays |-> 0]

\* openUrlsInPulltube(urlString) up to its first await: checkPermission reads
\* pulltube_always_allow from storage.
OpenUrls(r, urlString, path) ==
  [r EXCEPT !.pc = "perm_get", !.batch = urlString, !.opened = @ + 1,
            !.path = path, !.allowAtStart = store.alwaysAllow]

\* A handleUrl without the check of the site and the tab.
HandleUrlNoGuard(r) ==
  IF ~UrlParses(r.url) THEN OpenUrls(r, r.url, "parse_error")
  ELSE IF SearchParamsHas(r.url, KLIST)
  THEN [r EXCEPT !.pc = "activating"]
  ELSE OpenUrls(r, r.url, "single")

\* A handleUrl that gives up when the page URL does not parse.
HandleUrlSilentAbort(r) ==
  IF ~IncludesYoutube(r.url) \/ ~r.hasTab
  THEN [r EXCEPT !.pc = "done", !.path = "rejected"]
  ELSE IF ~UrlParses(r.url) THEN [r EXCEPT !.pc = "done", !.path = "parse_error"]
  ELSE IF SearchParamsHas(r.url, KLIST)
  THEN [r EXCEPT !.pc = "activating"]
  ELSE OpenUrls(r, r.url, "single")

\* A handleUrl that takes the extraction path for every video page.
HandleUrlAlwaysExtract(r) ==
  IF ~IncludesYoutube(r.url) \/ ~r.hasTab
  THEN [r EXCEPT !.pc = "done", !.path = "rejected"]
  ELSE IF ~UrlParses(r.url) THEN OpenUrls(r, r.url, "parse_error")
  ELSE [r EXCEPT !.pc = "activating"]

\* handleUrl(url, tab) up to its first await.
HandleUrl(r) ==
  IF ~IncludesYoutube(r.url) \/ ~r.hasTab
  THEN [r EXCEPT !.pc = "done", !.path = "rejected"]
  ELSE IF ~UrlParses(r.url) THEN OpenUrls(r, r.url, "parse_error")
  ELSE IF SearchParamsHas(r.url, KLIST)
  THEN [r EXCEPT !.pc = "activating"]
  ELSE OpenUrls(r, r.url, "single")

\* chrome.action.onClicked fires on a tab: handleUrl on a YouTube tab, otherwise
\* openStoredUrls, which reads pulltubePlaylists from storage.
Click(i) ==
  /\ o[i].pc = "idle"
  /\ \E url \in PageUrls :
       LET r == [o[i] EXCEPT !.url = url]
       IN  o' = [o EXCEPT ![i] =
                   IF IncludesYoutube(url) THEN HandleUrl(r)
                   ELSE [r EXCEPT !.pc = "stored_get"]]
  /\ UNCHANGED <<store, prompt, listeners, msgs, collVars, saveVars>>

\* chrome.tabs.update(tab.id, { active: true }) settles; a rejection is caught by
\* the outer catch of handleUrl.
Activated(i) ==
  /\ o[i].pc = "activating"
  /\ \E ok \in BOOLEAN :
       o' = [o EXCEPT ![i] =
               IF ok THEN [@ EXCEPT !.pc = "settle", !.focus = "trigger"]
               ELSE OpenUrls(@, @.url, "activate_error")]
  /\ UNCHANGED <<store, prompt, listeners, msgs, collVars, saveVars>>

\* The 1000 ms settle timer fires: injectContentScript pings the tab.
SettleElapsed(i) ==
  /\ o[i].pc = "settle"
  /\ o' = [o EXCEPT ![i] = [@ EXCEPT !.pc = "probing", !.probes = @ + 1]]
  /\ UNCHANGED <<store, prompt, listeners, msgs, collVars, saveVars>>

\* sendMessage(tabId, { action: "getPlaylistUrls" }) is called.
RequestExtraction(r) == [r EXCEPT !.pc = "extracting", !.requests = @ + 1]

\* A ping after which the content script is injected whatever the answer.
ProbeSettledAlwaysInjects(i) ==
  /\ o[i].pc = "probing"
  /\ \E resident \in BOOLEAN :
       o' = [o EXCEPT ![i] =
               [@ EXCEPT !.pc = "injecting", !.injections = @ + 1,
                         !.pinged = IF resident THEN "ok" ELSE "failed"]]
  /\ UNCHANGED <<store, prompt, listeners, msgs, collVars, saveVars>>

\* The ping settles: answered when the content script is resident (no injection),
\* rejected otherwise (chrome.scripting.executeScript is called).
ProbeSettled(i) ==
  /\ o[i].pc = "probing"
  /\ \E resident \in BOOLEAN :
       o' = [o EXCEPT ![i] =
               IF resident
               THEN RequestExtraction([@ EXCEPT !.resident = TRUE, !.pinged = "ok"])
               ELSE [@ EXCEPT !.pc = "injecting", !.injections = @ + 1,
                              !.pinged = "failed"]]
  /\ UNCHANGED <<store, prompt, listeners, msgs, collVars, saveVars>>

\* An executeScript step whose failure is ignored.
InjectSettledIgnoresFailure(i) ==
  /\ o[i].pc = "injecting"
  /\ \E ok \in BOOLEAN :
       o' = [o EXCEPT ![i] = RequestExtraction([@ EXCEPT !.resident = ok])]
  /\ UNCHANGED <<store, prompt, listeners, msgs, collVars, saveVars>>

\* executeScript settles: the content script is loaded, or injection failed and
\* the page URL is handed off alone.
InjectSettled(i) ==
  /\ o[i].pc = "injecting"
  /\ \E ok \in BOOLEAN :
       o' = [o EXCEPT ![i] =
               IF ok THEN RequestExtraction([@ EXCEPT !.resident = TRUE])
               ELSE OpenUrls(@, @.url, "inject_failed")]
  /\ UNCHANGED <<store, prompt, listeners, msgs, collVars, saveVars>>

\* A reply step that stores whatever came back, also an empty reply.
ExtractRepliedStoresEmpty(i) ==
  /\ o[i].pc = "extracting"
  /\ coll[i].pc = "replied"
  /\ o' = [o EXCEPT ![i] =
             [@ EXCEPT !.pc = "storing", !.storeCalls = @ + 1,
                       !.response = coll[i].reply,
                       !.extracted = Split(coll[i].reply, NL)]]
  /\ coll' = [coll EXCEPT ![i] = CollDone]
  /\ UNCHANGED <<dom, store, prompt, listeners, msgs, saveVars>>

\* A reply step that hands an empty reply on as the batch.
ExtractRepliedNoFallback(i) ==
  /\ o[i].pc = "extracting"
  /\ coll[i].pc = "replied"
  /\ o' = [o EXCEPT ![i] =
             IF Len(coll[i].reply) > 0
             THEN [@ EXCEPT !.pc = "storing", !.storeCalls = @ + 1,
                            !.response = coll[i].reply,
                            !.extracted = Split(coll[i].reply, NL)]
             ELSE OpenUrls(@, coll[i].reply, "empty_result")]
  /\ coll' = [coll EXCEPT ![i] = CollDone]
  /\ UNCHANGED <<dom, store, prompt, listeners, msgs, saveVars>>

\* The reply of the Collector arrives: a non-empty urls string is split and
\* stored (storeExtractedUrls), an empty one falls back to the page URL.
ExtractReplied(i) ==
  /\ o[i].pc = "extracting"
  /\ coll[i].pc = "replied"
  /\ o' = [o EXCEPT ![i] =
             IF Len(coll[i].reply) > 0
             THEN [@ EXCEPT !.pc = "storing", !.storeCalls = @ + 1,
                            !.response = coll[i].reply,
                            !.extracted = Split(coll[i].reply, NL)]
             ELSE OpenUrls(@, @.url, "empty_result")]
  /\ coll' = [coll EXCEPT ![i] = CollDone]
  /\ UNCHANGED <<dom, store, prompt, listeners, msgs, saveVars>>

\* A rejected extraction request after which the run just ends.
ExtractFailedSilent(i) ==
  /\ o[i].pc = "extracting"
  /\ coll[i].pc \in {"idle", "waiting"}
  /\ o' = [o EXCEPT ![i] = [@ EXCEPT !.pc = "done", !.path = "extract_error"]]
  /\ coll' = [coll EXCEPT ![i] = CollDone]
  /\ UNCHANGED <<dom, store, prompt, listeners, msgs, saveVars>>

\* The extraction request is rejected (the tab went away, the port closed).
ExtractFailed(i) ==
  /\ o[i].pc = "extracting"
  /\ coll[i].pc \in {"idle", "waiting"}
  /\ o' = [o EXCEPT ![i] = OpenUrls(@, @.url, "extract_error")]
  /\ coll' = [coll EXCEPT ![i] = CollDone]
  /\ UNCHANGED <<dom, store, prompt, listeners, msgs, saveVars>>

\* A write that is lost.
WriteRecordDropped(st, i, urls) == st

\* A write that keeps the head of the record it finds.
WriteRecordMerged(st, i, urls) ==
  [st EXCEPT !.record = IF @ = Undefined THEN urls ELSE <<@[1]>> \o Tail(urls),
             !.writer = i]

\* chrome.storage.local.set({ pulltubePlaylists: { lastExtracted: urls, ... } }):
\* the value of the key is replaced whole. The invocation that wrote is kept.
WriteRecord(st, i, urls) == [st EXCEPT !.record = urls, !.writer = i]

\* chrome.storage.local.set of storeExtractedUrls settles: the record is
\* replaced whole, or the error is logged; then the batch is handed on.
StoreSettled(i) ==
  /\ o[i].pc = "storing"
  /\ \E ok \in BOOLEAN :
       /\ store' = IF ok THEN WriteRecord(store, i, o[i].extracted) ELSE store
       /\ o' = [o EXCEPT ![i] =
                  OpenUrls([@ EXCEPT !.stored = ok], @.response, "extracted")]
  /\ UNCHANGED <<prompt, listeners, msgs, collVars, saveVars>>

\* A replay that hands on the first stored identifier only.
StoredGotFirstOnly(i) ==
  /\ o[i].pc = "stored_get"
  /\ o' = [o EXCEPT ![i] =
             IF store.record # Undefined
             THEN OpenUrls(@, Join(<<store.record[1]>>, NL), "stored")
             ELSE [@ EXCEPT !.pc = "done", !.popup = TRUE, !.path = "no_record"]]
  /\ UNCHANGED <<store, prompt, listeners, msgs, collVars, saveVars>>

\* chrome.storage.local.get of openStoredUrls settles: the stored identifiers are
\* handed on, or the debug popup is opened.
StoredGot(i) ==
  /\ o[i].pc = "stored_get"
  /\ o' = [o EXCEPT ![i] =
             IF store.record # Undefined
             THEN OpenUrls(@, Join(store.record, NL), "stored")
             ELSE [@ EXCEPT !.pc = "done", !.popup = TRUE, !.path = "no_record"]]
  /\ UNCHANGED <<store, prompt, listeners, msgs, collVars, saveVars>>

\* A continuation that awaits the archival before the first tab call.
AfterPermissionAwaitSave(r, how) ==
  [r EXCEPT !.perm = how, !.urls = CleanUrls(r.batch), !.pc = "await_save"]

\* The code of openUrlsInPulltube after a granted or bypassed permission check,
\* up to the await of chrome.tabs.query({ url: 'pulltube://*' }): the batch is
\* split and cleaned (saveUrlsToFile is called with the same list, see
\* SaveOnResolve).
AfterPermission(r, how) ==
  [r EXCEPT !.perm = how, !.urls = CleanUrls(r.batch), !.pc = "pt_query"]

\* A denial after which the run goes on to the tab calls.
DeniedProceeds(r) ==
  [r EXCEPT !.perm = "denied", !.urls = CleanUrls(r.batch), !.pc = "pt_query"]

\* `if (!hasPermission) return;`
Denied(r) == [r EXCEPT !.perm = "denied", !.pc = "done"]

PromptNone == [st |-> "none", optIn |-> FALSE, sent |-> 0]

\* A permission check that ignores the stored flag.
BypassNever(st) == FALSE

\* `if (pulltube_always_allow) return true;`
Bypass(st) == st.alwaysAllow

\* An archival that is started whatever the permission check returned.
SaveAlways(r, hasPermission) == SaveStart(CleanUrls(r.batch))

\* saveUrlsToFile(urls) of openUrlsInPulltube: reached only past
\* `if (!hasPermission) return;`, with the cleaned list.
SaveOnResolve(r, hasPermission) ==
  IF hasPermission THEN SaveStart(CleanUrls(r.batch)) ELSE SaverIdle

\* chrome.storage.local.get of checkPermission settles: bypass when
\* pulltube_always_allow is set, otherwise the prompt window is created and the
\* permission listener registered.
PermGot(i) ==
  /\ o[i].pc = "perm_get"
  /\ IF Bypass(store)
     THEN /\ o' = [o EXCEPT ![i] = AfterPermission(@, "bypass")]
          /\ saver' = [saver EXCEPT ![i] = SaveOnResolve(o[i], TRUE)]
          /\ UNCHANGED <<prompt, listeners>>
     ELSE /\ o' = [o EXCEPT ![i] =
                     [@ EXCEPT !.pc = "perm_wait", !.prompts = @ + 1,
                               !.listens = @ + 1]]
          /\ prompt' = [prompt EXCEPT ![i] = [PromptNone EXCEPT !.st = "open"]]
          /\ listeners' = listeners \cup {i}
          /\ saver' = saver
  /\ UNCHANGED <<store, msgs, dl, collVars>>

\* A click on Allow that stores the flag whether or not the box is checked.
ClickAllowAlwaysStores(p) ==
  /\ prompt[p].st = "open"
  /\ \E alwaysAllow \in BOOLEAN :
       /\ prompt' = [prompt EXCEPT ![p] = [@ EXCEPT !.st = "closed", !.sent = @ + 1,
                                                    !.optIn = alwaysAllow]]
       /\ msgs' = Append(msgs, [action |-> "permission_granted", from |-> p])
  /\ store' = [store EXCEPT !.alwaysAllow = TRUE]
  /\ UNCHANGED <<o, listeners, collVars, saveVars>>

\* permission.js, click on Allow: with the box checked pulltube_always_allow is
\* written first; then permission_granted is sent and the window closes.
ClickAllow(p) ==
  /\ prompt[p].st = "open"
  /\ \E alwaysAllow \in BOOLEAN :
       IF alwaysAllow
       THEN /\ prompt' = [prompt EXCEPT ![p] = [@ EXCEPT !.st = "saving", !.optIn = TRUE]]
            /\ msgs' = msgs
       ELSE /\ prompt' = [prompt EXCEPT ![p] = [@ EXCEPT !.st = "closed", !.sent = @ + 1]]
            /\ msgs' = Append(msgs, [action |-> "permission_granted", from |-> p])
  /\ UNCHANGED <<o, store, listeners, collVars, saveVars>>

\* chrome.storage.local.set({ pulltube_always_allow: true }) settles in the
\* prompt: permission_granted is sent and the window closes.
AllowSaved(p) ==
  /\ prompt[p].st = "saving"
  /\ store' = [store EXCEPT !.alwaysAllow = TRUE]
  /\ prompt' = [prompt EXCEPT ![p] = [@ EXCEPT !.st = "closed", !.sent = @ + 1]]
  /\ msgs' = Append(msgs, [action |-> "permission_granted", from |-> p])
  /\ UNCHANGED <<o, listeners, collVars, saveVars>>

\* permission.js, click on Cancel.
ClickCancel(p) ==
  /\ prompt[p].st = "open"
  /\ prompt' = [prompt EXCEPT ![p] = [@ EXCEPT !.st = "closed", !.sent = @ + 1]]
  /\ msgs' = Append(msgs, [action |-> "permission_denied", from |-> p])
  /\ UNCHANGED <<o, store, listeners, collVars, saveVars>>

\* The user closes the prompt window without choosing.
CloseWindow(p) ==
  /\ prompt[p].st = "open"
  /\ prompt' = [prompt EXCEPT ![p] = [@ EXCEPT !.st = "closed"]]
  /\ UNCHANGED <<o, store, listeners, msgs, collVars, saveVars>>

\* The listener of checkPermission on a message: it removes itself and resolves
\* the wait of its invocation.
OnPermissionMessage(r, m) ==
  LET t == [r EXCEPT !.resolved = @ + 1, !.resolvedBy = m.from]
  IN  IF m.action = "permission_granted" THEN AfterPermission(t, "granted")
      ELSE Denied(t)

\* A delivery after which the listeners that ran stay registered.
DeliverPermissionKeeps ==
  /\ Len(msgs) > 0
  /\ LET m == Head(msgs)
     IN  /\ o' = [j \in Inv |->
                    IF j \in listeners THEN OnPermissionMessage(o[j], m) ELSE o[j]]
         /\ saver' = [j \in Inv |->
                        IF j \in listeners
                        THEN SaveOnResolve(o[j], m.action = "permission_granted")
                        ELSE saver[j]]
  /\ listeners' = listeners
  /\ msgs' = Tail(msgs)
  /\ UNCHANGED <<store, prompt, dl, collVars>>

\* chrome.runtime.onMessage delivers a permission message in the background:
\* every registered permission listener runs.
DeliverPermission ==
  /\ Len(msgs) > 0
  /\ LET m == Head(msgs)
     IN  /\ o' = [j \in Inv |->
                    IF j \in listeners THEN OnPermissionMessage(o[j], m) ELSE o[j]]
         /\ saver' = [j \in Inv |->
                        IF j \in listeners
                        THEN SaveOnResolve(o[j], m.action = "permission_granted")
                        ELSE saver[j]]
  /\ listeners' = {}
  /\ msgs' = Tail(msgs)
  /\ UNCHANGED <<store, prompt, dl, collVars>>

\* The id of the tab a run dispatches to: the one the query found, or its own.
\* chrome.tabs.update or chrome.tabs.create is called for urls[idx].
IssueDispatch(r) == [r EXCEPT !.pc = "dispatching", !.tabCalls = @ + 1]

\* The loop head `i < urls.length`: the next dispatch, or the query for the
\* active tab after the loop.
LoopHead(r) ==
  IF r.idx <= Len(r.urls) THEN IssueDispatch(r) ELSE [r EXCEPT !.pc = "focus_query"]

\* chrome.tabs.query({ url: 'pulltube://*' }) settles: pulltubeTabs[0] or none.
PulltubeQueried(i) ==
  /\ o[i].pc = "pt_query"
  /\ \E found \in BOOLEAN :
       o' = [o EXCEPT ![i] =
               LoopHead([@ EXCEPT !.idx = 1,
                                  !.pulltubeTab = IF found THEN "found" ELSE "none"])]
  /\ UNCHANGED <<store, prompt, listeners, msgs, collVars, saveVars>>

\* A loop body that goes on to the next identifier without the delay.
DispatchSettledNoDelay(i) ==
  /\ o[i].pc = "dispatching"
  /\ \E ok \in BOOLEAN :
       o' = [o EXCEPT ![i] =
               IF ~ok THEN [@ EXCEPT !.pc = "failed"]
               ELSE LoopHead([@ EXCEPT
                       !.idx = @ + 1,
                       !.dispatched = Append(@, <<SCHEME>> \o o[i].urls[o[i].idx]),
                       !.targets = Append(@, IF o[i].pulltubeTab = "none"
                                             THEN "created" ELSE o[i].pulltubeTab),
                       !.creates = IF o[i].pulltubeTab = "none" THEN @ + 1 ELSE @,
                       !.updates = IF o[i].pulltubeTab = "none" THEN @ ELSE @ + 1,
                       !.pulltubeTab = IF @ = "none" THEN "created" ELSE @])]
  /\ UNCHANGED <<store, prompt, listeners, msgs, collVars, saveVars>>

\* A loop body that does not keep the tab it created.
DispatchSettledForgetsTab(i) ==
  /\ o[i].pc = "dispatching"
  /\ \E ok \in BOOLEAN :
       o' = [o EXCEPT ![i] =
               IF ~ok THEN [@ EXCEPT !.pc = "failed"]
               ELSE [@ EXCEPT
                       !.pc = "delay",
                       !.dispatched = Append(@, <<SCHEME>> \o o[i].urls[o[i].idx]),
                       !.targets = Append(@, IF o[i].pulltubeTab = "none"
                                             THEN "created" ELSE o[i].pulltubeTab),
                       !.creates = IF o[i].pulltubeTab = "none" THEN @ + 1 ELSE @,
                       !.updates = IF o[i].pulltubeTab = "none" THEN @ ELSE @ + 1]]
  /\ UNCHANGED <<store, prompt, listeners, msgs, collVars, saveVars>>

\* The tab call of the loop body settles: the tab now shows
\* pulltube://<urls[idx]> and the 100 ms delay starts; a rejection ends the run.
DispatchSettled(i) ==
  /\ o[i].pc = "dispatching"
  /\ \E ok \in BOOLEAN :
       o' = [o EXCEPT ![i] =
               IF ~ok THEN [@ EXCEPT !.pc = "failed"]
               ELSE [@ EXCEPT
                       !.pc = "delay",
                       !.dispatched = Append(@, <<SCHEME>> \o o[i].urls[o[i].idx]),
                       !.targets = Append(@, IF o[i].pulltubeTab = "none"
                                             THEN "created" ELSE o[i].pulltubeTab),
                       !.creates = IF o[i].pulltubeTab = "none" THEN @ + 1 ELSE @,
                       !.updates = IF o[i].pulltubeTab = "none" THEN @ ELSE @ + 1,
                       !.pulltubeTab = IF @ = "none" THEN "created" ELSE @]]
  /\ UNCHANGED <<store, prompt, listeners, msgs, collVars, saveVars>>

\* The 100 ms delay between dispatches elapses: i++ and the loop head.
DelayElapsed(i) ==
  /\ o[i].pc = "delay"
  /\ o' = [o EXCEPT ![i] = LoopHead([@ EXCEPT !.idx = @ + 1, !.delays = @ + 1])]
  /\ UNCHANGED <<store, prompt, listeners, msgs, collVars, saveVars>>

\* chrome.tabs.query({ active: true, currentWindow: true }) settles and the tab
\* it returned is activated.
FocusQueried(i) ==
  /\ o[i].pc = "focus_query"
  /\ o' = [o EXCEPT ![i] = [@ EXCEPT !.pc = "focus_update", !.currentTab = o[i].focus]]
  /\ UNCHANGED <<store, prompt, listeners, msgs, collVars, saveVars>>

\* chrome.tabs.update(currentTab.id, { active: true }) settles: the run ends.
FocusUpdated(i) ==
  /\ o[i].pc = "focus_update"
  /\ \E ok \in BOOLEAN :
       o' = [o EXCEPT ![i] =
               IF ok THEN [@ EXCEPT !.pc = "done", !.focus = o[i].currentTab]
               ELSE [@ EXCEPT !.pc = "failed"]]
  /\ UNCHANGED <<store, prompt, listeners, msgs, collVars, saveVars>>

\* The user activates another tab of the window during a delay of the loop.
SwitchTab(i) ==
  /\ o[i].pc = "delay"
  /\ o[i].focus = "trigger"
  /\ o' = [o EXCEPT ![i] = [@ EXCEPT !.focus = "other"]]
  /\ UNCHANGED <<store, prompt, listeners, msgs, collVars, saveVars>>

\* ------------------------------------------------------------ specification

\* What chrome.storage.local can hold when a session starts: nothing (a fresh
\* install), or what earlier sessions left there.
StoredRecords ==
  {Undefined} \cup {Split(Join(ExtractUrls(QuerySelectorAll(page)), NL), NL) : page \in Pages}

Persisted == [alwaysAllow : BOOLEAN, record : StoredRecords, writer : {0}]

\* No click yet: nothing runs in the background, the pages or the prompts.
QuietPipeline ==
  /\ o = [i \in Inv |-> OrchIdle]
  /\ coll = [i \in Inv |-> CollIdle]
  /\ dom = [i \in Inv |-> <<>>]
  /\ prompt = [i \in Inv |-> PromptNone]
  /\ listeners = {}
  /\ msgs = <<>>

Quiet ==
  /\ QuietPipeline
  /\ saver = [i \in Inv |-> SaverIdle]
  /\ dl = [i \in Inv |-> DlNone]

\* A session starts with whatever earlier sessions stored.
Init == Quiet /\ store \in Persisted

\* A fresh install: nothing stored.
FreshInit == Quiet /\ store = [alwaysAllow |-> FALSE, record |-> Undefined, writer |-> 0]

\* The only click of the session.
SoloClick(i) == (\A j \in Inv \ {i} : o[j].pc = "idle") /\ Click(i)

\* handleUrl after its first await, with the Collector.
ExtractNext ==
  \/ \E i \in Inv : Activated(i)
  \/ \E i \in Inv : SettleElapsed(i)
  \/ \E i \in Inv : ProbeSettled(i)
  \/ \E i \in Inv : InjectSettled(i)
  \/ \E i \in Inv : Render(i)
  \/ \E i \in Inv : CollectorReceive(i)
  \/ \E i \in Inv : CollectorPoll(i)
  \/ \E i \in Inv : ExtractReplied(i)
  \/ \E i \in Inv : ExtractFailed(i)
  \/ \E i \in Inv : StoreSettled(i)

\* handleUrl and openStoredUrls after the click.
HandleNext ==
  \/ ExtractNext
  \/ \E i \in Inv : StoredGot(i)

\* checkPermission and the prompt.
GateNext ==
  \/ \E i \in Inv : PermGot(i)
  \/ \E p \in Inv : ClickAllow(p)
  \/ \E p \in Inv : AllowSaved(p)
  \/ \E p \in Inv : ClickCancel(p)
  \/ \E p \in Inv : CloseWindow(p)
  \/ DeliverPermission

\* The tab calls of openUrlsInPulltube.
HandoffStep(i) ==
  \/ PulltubeQueried(i)
  \/ DispatchSettled(i)
  \/ DelayElapsed(i)
  \/ FocusQueried(i)
  \/ FocusUpdated(i)

HandoffNext == \E i \in Inv : HandoffStep(i)

\* The answers of the archival subsystem.
ArchiveStep(i) ==
  \/ DownloadSettled(i)
  \/ BackoffElapsed(i)
  \/ DownloadChanged(i)

ArchiveNext == \E i \in Inv : ArchiveStep(i)

\* One click in a session, with every step that follows it.
Next ==
  \/ \E i \in Inv : SoloClick(i)
  \/ HandleNext
  \/ GateNext
  \/ HandoffNext
  \/ \E i \in Inv : SwitchTab(i)
  \/ ArchiveNext

Spec == Init /\ [][Next]_vars

\* An awaited chrome.tabs call settles and the 100 ms timer fires: the one step
\* an invocation past the gate is waiting for is taken in the end. Nothing is
\* assumed of the user or of the archival subsystem.
HandoffFairness == \A i \in Inv : WF_vars(HandoffStep(i))

LiveSpec == Spec /\ HandoffFairness

\* Clicks that overlap, from a fresh install, up to the permission gate: the
\* tab and download calls made after it stay unanswered.
RaceNext ==
  \/ \E i \in Inv : Click(i)
  \/ HandleNext
  \/ GateNext

RaceSpec == FreshInit /\ [][RaceNext]_vars

\* ------------------------------- handleUrl and openUrlsInPulltube on their own

\* A string that names the site but is no absolute URL: "youtube.com/watch?v=a".
Malformed == <<BARE, WATCH, QM, KV, "a">>

\* Arguments of handleUrl: the page URLs, an absent URL and a malformed one.
HandleInputs == PageUrls \cup {Null, Malformed}

\* Arguments of openUrlsInPulltube: '', one URL, two lines.
BatchInputs ==
  { <<>>,
    <<HTTPS, WWW, WATCH, QM, KV, "a", AMP, KLIST, "PL">>,
    Join(<<ItemHref("a", "1"), ItemHref("b", "2")>>, NL) }

\* handleUrl(url, tab) is called, with or without a tab that has an id.
CallHandleUrl(i) ==
  /\ \A j \in Inv : o[j].pc = "idle"
  /\ \E url \in HandleInputs, hasTab \in BOOLEAN :
       o' = [o EXCEPT ![i] = HandleUrl([@ EXCEPT !.url = url, !.hasTab = hasTab])]
  /\ UNCHANGED <<store, prompt, listeners, msgs, collVars, saveVars>>

\* openUrlsInPulltube(urlString) is called.
CallOpenUrls(i) ==
  /\ \A j \in Inv : o[j].pc = "idle"
  /\ \E urlString \in BatchInputs :
       o' = [o EXCEPT ![i] = OpenUrls(@, urlString, "direct")]
  /\ UNCHANGED <<store, prompt, listeners, msgs, collVars, saveVars>>

DirectInit == Quiet /\ store \in [alwaysAllow : BOOLEAN, record : {Undefined}, writer : {0}]

\* One call in a session, with every step that follows it.
DirectNext ==
  \/ \E i \in Inv : CallHandleUrl(i)
  \/ \E i \in Inv : CallOpenUrls(i)
  \/ ExtractNext
  \/ GateNext
  \/ HandoffNext
  \/ ArchiveNext

DirectSpec == DirectInit /\ [][DirectNext]_vars

\* Every entry of the background script: a click on a tab, or a direct call.
EntryNext ==
  \/ DirectNext
  \/ \E i \in Inv : SoloClick(i)
  \/ \E i \in Inv : StoredGot(i)

EntrySpec == Init /\ [][EntryNext]_vars

\* ------------------------------------------- FileSaverService.save on its own

VideoA == <<HTTPS, WWW, WATCH, QM, KV, "a">>
VideoB == <<HTTPS, WWW, WATCH, QM, KV, "b">>

\* Arguments of save: absent, empty, blank entries only, and lists with content.
SaveInputs ==
  { Undefined, <<>>, <<<<>>>>, <<<<SP>>>>, <<<<SP>>, <<NL, SP>>, <<>>>>,
    <<VideoA>>, <<VideoA, VideoB>>, <<<<SP>>, <<SP>> \o VideoB \o <<NL>>>> }

\* Every invocation slot holds a call of save that has not run yet.
SaveInit ==
  /\ QuietPipeline
  /\ dl = [i \in Inv |-> DlNone]
  /\ store = [alwaysAllow |-> FALSE, record |-> Undefined, writer |-> 0]
  /\ saver \in [Inv -> {[SaverIdle EXCEPT !.pc = "called", !.urls = u] : u \in SaveInputs}]

\* saveUrlsToFile(urls): save runs up to its first await.
SaveEnter(i) ==
  /\ saver[i].pc = "called"
  /\ saver' = [saver EXCEPT ![i] = SaveStart(@.urls)]
  /\ UNCHANGED <<dl, orchVars, collVars>>

SaveNext ==
  \/ \E i \in Inv : SaveEnter(i)
  \/ ArchiveNext

SaveSpec == SaveInit /\ [][SaveNext]_vars

\* The event loop runs every callback that is due: the call of save, a settled
\* download promise, an elapsed timer or an emitted download event, whichever
\* the save is waiting for, is handled in the end.
SaveFairness == \A i \in Inv : WF_vars(SaveEnter(i) \/ ArchiveStep(i))

SaveLiveSpec == SaveSpec /\ SaveFairness

\* ---------------------------------------------------------------- archival claims

\* Every request save has made so far failed to start.
AllFailedToStart(s) == s.requests > 0 /\ s.attempts = s.requests /\ s.events = <<>>

\* C6: when every download attempt of a save fails to start, save makes exactly 3
\* requests, has waited the backoff between consecutive requests only (twice,
\* none after the third), and throws the error of the third request; no save ever
\* makes a fourth request.
C6_ThreeAttempts ==
  \A i \in Inv :
    LET s == saver[i]
    IN  /\ s.requests <= 3
        /\ s.requests > 0 => s.backoffs = s.requests - 1
        /\ AllFailedToStart(s) /\ s.requests = 3
             => /\ s.pc = "threw"
                /\ s.backoffs = 2
                /\ s.error = 3
                /\ s.errors = <<1, 2, 3>>
        /\ AllFailedToStart(s) /\ s.requests < 3 => s.pc = "backoff"

\* A save that threw after three requests that all failed to start.
C6_Witness ==
  \E i \in Inv :
    /\ AllFailedToStart(saver[i])
    /\ saver[i].pc = "threw"
    /\ saver[i].requests = 3

\* A list with no entry that has a non-blank character.
AllBlank(urls) ==
  urls # Undefined /\ \A k \in 1..Len(urls) : \A t \in 1..Len(urls[k]) : urls[k][t] \in {SP, NL}

\* C7: save called with an absent or empty list, or with entries that are all
\* blank, returns false and makes no download request.
C7_BlankInput ==
  \A i \in Inv :
    (saver[i].pc \notin {"idle", "called"} /\ (saver[i].urls = Undefined \/ AllBlank(saver[i].urls)))
      => /\ saver[i].pc = "returned"
         /\ saver[i].result = "false"
         /\ saver[i].requests = 0
         /\ dl[i] = DlNone

\* A save of a non-empty list of blank entries has returned.
C7_Witness ==
  \E i \in Inv :
    /\ saver[i].pc = "returned"
    /\ saver[i].urls # Undefined
    /\ Len(saver[i].urls) > 1
    /\ AllBlank(saver[i].urls)

\* C8: when the archival subsystem has accepted a download and emits the
\* completion event for its handle while the monitor listens, save eventually
\* returns true.
C8_CompletionReturns ==
  \A i \in Inv :
    (dl[i].state = "complete" /\ saver[i].events = <<"complete">>)
      ~> (saver[i].pc = "returned" /\ saver[i].result = "true")

\* ------------------------------------------------------------ pipeline claims

\* The permission check of the invocation returned true.
Permitted(r) == r.perm \in {"granted", "bypass"}

\* The run issued a tab call of the handoff, or a tab shows one of its batch.
TouchedTabs(r) ==
  r.tabCalls > 0 \/ r.creates > 0 \/ r.updates > 0 \/ r.dispatched # <<>>
    \/ r.pc \in {"pt_query", "dispatching", "delay", "focus_query", "focus_update"}

\* C1: no handoff tab is queried, created or updated for an invocation unless
\* its permission check returned true (bypass on the stored flag, or a
\* permission_granted message); after a denial the invocation has ended without
\* any tab call.
C1_NoTabWithoutPermission ==
  \A i \in Inv :
    /\ TouchedTabs(o[i]) => Permitted(o[i])
    /\ o[i].perm = "bypass" => store.alwaysAllow /\ o[i].prompts = 0
    /\ o[i].perm = "granted" => o[i].prompts = 1 /\ o[i].resolved = 1
    /\ o[i].perm = "denied" => o[i].pc = "done" /\ ~TouchedTabs(o[i])

\* The user cancelled the prompt of an invocation with a non-empty batch.
C1_Witness ==
  \E i \in Inv :
    /\ o[i].perm = "denied"
    /\ o[i].pc = "done"
    /\ o[i].resolved = 1
    /\ prompt[i].st = "closed"

\* C2 as stated: after a denial with a non-empty batch no tab is touched, and
\* the archival download of the batch was requested and completed.
C2_ArchivedBeforeDenial ==
  \A i \in Inv :
    (o[i].perm = "denied" /\ Len(o[i].batch) > 0)
      => /\ ~TouchedTabs(o[i])
         /\ saver[i].requests > 0
         /\ saver[i].result = "true"

\* C2, amended: after a denial with a non-empty batch no tab is touched and no
\* archival download is requested either; save is called only for an invocation
\* whose permission check returned true.
C2_NoArchiveOnDenial ==
  \A i \in Inv :
    /\ (o[i].perm = "denied" /\ Len(o[i].batch) > 0)
         => /\ ~TouchedTabs(o[i])
            /\ saver[i] = SaverIdle
            /\ dl[i] = DlNone
    /\ saver[i] # SaverIdle => Permitted(o[i])

\* A denied invocation whose batch held the identifiers of a playlist.
C2_Witness ==
  \E i \in Inv :
    /\ o[i].perm = "denied"
    /\ o[i].path = "extracted"
    /\ Len(o[i].extracted) = 2

\* C3: a gated operation that starts when pulltube_always_allow is stored opens
\* no prompt and registers no listener, and its permission check returns true.
C3_AlwaysAllowBypasses ==
  \A i \in Inv :
    o[i].allowAtStart
      => /\ o[i].prompts = 0
         /\ o[i].listens = 0
         /\ prompt[i] = PromptNone
         /\ i \notin listeners
         /\ o[i].pc # "perm_get" => o[i].perm = "bypass"

\* After the opt-in grant of one prompt, a later operation went through.
C3_Witness ==
  \E i, p \in Inv :
    /\ p # i
    /\ prompt[p].optIn
    /\ o[i].allowAtStart
    /\ o[i].perm = "bypass"

\* What the Collector found on the page of invocation i, in document order.
CollOut(i) == ExtractUrls(QuerySelectorAll(dom[i]))

\* The value of the v parameter of an identifier.
IdOf(u) == u[IndexOf(u, {KV}) + 1]

\* The pulltube:// string of the video `v`.
Canonical(v) == <<SCHEME, HTTPS, WWW, WATCH, QM, KV, v>>

\* C4: on the extraction path the list split from the reply, the record
\* written to storage and the dispatches are in the order of the Collector's
\* output: the k-th dispatch is the k-th identifier the Collector found.
C4_OrderPreserved ==
  \A i \in Inv :
    o[i].path = "extracted"
      => /\ o[i].extracted = CollOut(i)
         /\ o[i].stored => store.record = CollOut(i)
         /\ Len(o[i].dispatched) <= Len(CollOut(i))
         /\ \A k \in 1..Len(o[i].dispatched) :
              o[i].dispatched[k] = Canonical(IdOf(CollOut(i)[k]))
         /\ (o[i].pc = "done" /\ Permitted(o[i]))
              => Len(o[i].dispatched) = Len(CollOut(i))

\* Two different identifiers were stored and dispatched.
C4_Witness ==
  \E i \in Inv :
    /\ o[i].path = "extracted"
    /\ o[i].stored
    /\ o[i].pc = "done"
    /\ Len(o[i].dispatched) = 2
    /\ o[i].dispatched[1] # o[i].dispatched[2]

\* C5: the Collector looks at the page at most maxAttempts times, and when it
\* resolves empty it has looked exactly maxAttempts times.
C5_ExactlyMaxAttempts ==
  \A i \in Inv :
    /\ coll[i].checks <= maxAttempts
    /\ (coll[i].pc = "replied" /\ coll[i].reply = <<>>) => coll[i].checks = maxAttempts

SingleVideo(u) == IncludesYoutube(u) /\ \A k \in 1..Len(u) : u[k] # KLIST

\* C10: for a supported page URL without a list parameter there is no probe, no
\* injection and no extraction request, and the run dispatches exactly one
\* identifier, the canonical form of the page URL.
C10_SingleVideoDirect ==
  \A i \in Inv :
    SingleVideo(o[i].url)
      => /\ o[i].probes = 0
         /\ o[i].injections = 0
         /\ o[i].requests = 0
         /\ coll[i] = CollIdle
         /\ Len(o[i].dispatched) <= 1
         /\ Permitted(o[i]) => o[i].urls = <<Tail(Canonical(IdOf(o[i].url)))>>
         /\ \A k \in 1..Len(o[i].dispatched) :
              o[i].dispatched[k] = Canonical(IdOf(o[i].url))
         /\ (o[i].pc = "done" /\ Permitted(o[i])) => Len(o[i].dispatched) = 1

\* A single-video run that finished its handoff.
C10_Witness ==
  \E i \in Inv :
    /\ SingleVideo(o[i].url)
    /\ o[i].pc = "done"
    /\ Permitted(o[i])
    /\ Len(o[i].dispatched) = 1

\* The page URL has a v parameter.
HasV(u) == \E k \in 1..Len(u) : u[k] = KV

\* openUrlsInPulltube ran once on the page URL alone: the batch is the raw page
\* URL, it cleans to one identifier, and at most that one is dispatched (the
\* canonical form of the page's video when the URL names one).
SingleFromPage(r) ==
  /\ r.opened = 1
  /\ r.batch = r.url
  /\ r.storeCalls = 0
  /\ Permitted(r) => Len(r.urls) = 1
  /\ Len(r.dispatched) <= 1
  /\ \A k \in 1..Len(r.dispatched) :
       /\ r.dispatched[k] = <<SCHEME>> \o r.urls[1]
       /\ HasV(r.url) => r.dispatched[k] = Canonical(IdOf(r.url))
  /\ (r.pc = "done" /\ Permitted(r)) => Len(r.dispatched) = 1

\* The probe was not answered and the injection failed.
InjectionFailed(r) == r.injections = 1 /\ ~r.resident /\ r.pc # "injecting"

\* C11: on the collection path, when the probe is not answered and the injection
\* fails, no extraction request is sent and the handoff pipeline runs on a batch
\* of exactly one identifier, taken from the page URL.
C11_InjectionFallback ==
  \A i \in Inv :
    InjectionFailed(o[i])
      => /\ o[i].requests = 0
         /\ coll[i] = CollIdle
         /\ SingleFromPage(o[i])

\* A run whose injection failed and that dispatched its page URL.
C11_Witness ==
  \E i \in Inv :
    /\ InjectionFailed(o[i])
    /\ SearchParamsHas(o[i].url, KLIST)
    /\ o[i].pc = "done"
    /\ Len(o[i].dispatched) = 1

\* The extraction request was answered empty, or rejected.
ExtractionCameBackEmpty(r) ==
  r.requests = 1 /\ r.pc # "extracting" /\ r.storeCalls = 0

\* C12: on the collection path, when the Collector replies empty or the request
\* is rejected, the handoff pipeline runs on a batch of exactly one identifier
\* taken from the page URL: never on an empty batch, and the run does not end
\* there.
C12_EmptyResultFallback ==
  \A i \in Inv :
    ExtractionCameBackEmpty(o[i])
      => /\ SingleFromPage(o[i])
         /\ Len(o[i].batch) > 0
         /\ o[i].path \in {"empty_result", "extract_error"}

\* The Collector gave up and replied empty; the page URL was dispatched.
C12_Witness ==
  \E i \in Inv :
    /\ ExtractionCameBackEmpty(o[i])
    /\ o[i].path = "empty_result"
    /\ o[i].pc = "done"
    /\ Len(o[i].dispatched) = 1

\* C13: after any interleaving of overlapping invocations the store holds no
\* record, or one record that is the whole identifier sequence of the extraction
\* whose write came last, never a mixture of two extractions.
C13_LastWriteWins ==
  /\ store.writer = 0 => store.record = Undefined
  /\ store.writer # 0
       => /\ o[store.writer].stored
          /\ store.record = o[store.writer].extracted
          /\ store.record = CollOut(store.writer)

\* Two overlapping invocations wrote different extractions.
C13_Witness ==
  \E i, j \in Inv :
    /\ i # j
    /\ o[i].stored
    /\ o[j].stored
    /\ o[i].extracted # o[j].extracted
    /\ store.writer = j

\* C14: a permission wait is resolved at most once, and a wait that has been
\* resolved by a terminal message has no listener registered any more, also
\* when several waits are pending at once.
C14_SingleShotListener ==
  \A i \in Inv :
    /\ o[i].resolved <= 1
    /\ o[i].listens <= 1
    /\ o[i].resolved = 1 => i \notin listeners
    /\ i \in listeners => o[i].pc = "perm_wait" /\ o[i].resolved = 0

\* Two waits were pending, both were resolved, and a later message found no
\* listener.
C14_Witness ==
  \E i, j \in Inv :
    /\ i # j
    /\ o[i].resolved = 1
    /\ o[j].resolved = 1
    /\ prompt[i].sent = 1
    /\ prompt[j].sent = 1
    /\ msgs = <<>>
    /\ listeners = {}

\* C15: a handoff run creates at most one consumer tab, only when the query
\* found none and only for its first identifier, and every dispatch of the run
\* goes to that one tab (the found one or the created one); a run with an empty
\* batch creates none.
C15_OneConsumerTab ==
  \A i \in Inv :
    LET r == o[i]
    IN  /\ r.creates <= 1
        /\ r.creates + r.updates = Len(r.dispatched)
        /\ Len(r.targets) = Len(r.dispatched)
        /\ \A k, l \in 1..Len(r.targets) : r.targets[k] = r.targets[l]
        /\ r.creates = 1 => r.targets[1] = "created" /\ r.pulltubeTab = "created"
        /\ r.pulltubeTab = "found" => r.creates = 0
        /\ r.pulltubeTab = "none" => r.dispatched = <<>>
        /\ Len(r.urls) = 0 => r.creates = 0 /\ r.tabCalls = 0

\* A run that created the consumer tab for its first identifier and updated
\* it for the second.
C15_Witness ==
  \E i \in Inv :
    /\ o[i].pc = "done"
    /\ o[i].creates = 1
    /\ o[i].updates = 1
    /\ o[i].targets = <<"created", "created">>

\* handleUrl was called with a URL that is not of the site, or without a tab.
Unsupported(r) ==
  r.pc # "idle" /\ r.path # "direct" /\ (~IncludesYoutube(r.url) \/ ~r.hasTab)

\* C16: handleUrl called with a URL that does not belong to the supported site,
\* or without a tab handle, does nothing: no message to the Collector, no write
\* to the store, no prompt, no archival download and no tab call.
C16_UnsupportedIsNoOp ==
  \A i \in Inv :
    Unsupported(o[i])
      => /\ o[i].pc = "done"
         /\ o[i].probes = 0 /\ o[i].injections = 0 /\ o[i].requests = 0
         /\ coll[i] = CollIdle
         /\ o[i].storeCalls = 0 /\ store.writer = 0 /\ store.record = Undefined
         /\ o[i].opened = 0 /\ o[i].prompts = 0 /\ prompt[i] = PromptNone
         /\ listeners = {} /\ msgs = <<>>
         /\ saver[i] = SaverIdle /\ dl[i] = DlNone
         /\ ~TouchedTabs(o[i])

\* handleUrl returned for a page of the site given without a tab.
C16_Witness ==
  \E i \in Inv :
    /\ Unsupported(o[i])
    /\ IncludesYoutube(o[i].url)
    /\ ~o[i].hasTab
    /\ o[i].pc = "done"

\* handleUrl was called with a URL that names the site and does not parse.
MalformedUrl(r) ==
  r.pc # "idle" /\ r.path # "direct" /\ r.hasTab
    /\ IncludesYoutube(r.url) /\ ~UrlParses(r.url)

\* C17 as stated: a page URL that names the site and does not parse ends the
\* run silently: no prompt, no archival, no identifier handed off.
C17_SilentAbort ==
  \A i \in Inv :
    MalformedUrl(o[i])
      => /\ o[i].opened = 0
         /\ o[i].prompts = 0
         /\ saver[i] = SaverIdle
         /\ o[i].dispatched = <<>>

\* C17, amended: a page URL that names the site and does not parse is handed
\* to openUrlsInPulltube as it is, without probe, injection or extraction: the
\* gate runs, and once permission is given the raw string is archived and
\* dispatched uncleaned as the one entry of the batch.
C17_RawFallback ==
  \A i \in Inv :
    MalformedUrl(o[i])
      => /\ o[i].opened = 1
         /\ o[i].batch = o[i].url
         /\ o[i].probes = 0 /\ o[i].injections = 0 /\ o[i].requests = 0
         /\ o[i].storeCalls = 0
         /\ ~store.alwaysAllow /\ o[i].pc # "perm_get" => o[i].prompts = 1
         /\ Permitted(o[i])
              => /\ o[i].urls = <<o[i].url>>
                 /\ saver[i].urls = <<o[i].url>>
                 /\ saver[i].requests >= 1
         /\ Len(o[i].dispatched) <= 1
         /\ \A k \in 1..Len(o[i].dispatched) :
              o[i].dispatched[k] = <<SCHEME>> \o o[i].url
         /\ (o[i].pc = "done" /\ Permitted(o[i])) => Len(o[i].dispatched) = 1

\* The raw string went through the prompt and was dispatched.
C17_Witness ==
  \E i \in Inv :
    /\ MalformedUrl(o[i])
    /\ o[i].prompts = 1
    /\ o[i].pc = "done"
    /\ o[i].dispatched = <<<<SCHEME>> \o Malformed>>

\* The k-th line of the batch the run was given.
RawInput(r, k) == Split(r.batch, NL)[k]

\* C18: every identifier dispatched, and every identifier given to the archive,
\* is https://www.youtube.com/watch?v=<id> with <id> the value of the v
\* parameter of the raw input it comes from, every other parameter dropped;
\* also for a collection page URL used by a fallback.
C18_CanonicalIdentifiers ==
  \A i \in Inv :
    /\ \A k \in 1..Len(o[i].dispatched) :
         /\ HasV(RawInput(o[i], k))
         /\ o[i].dispatched[k] = Canonical(IdOf(RawInput(o[i], k)))
    /\ saver[i].urls # Undefined
         => \A k \in 1..Len(saver[i].urls) :
              /\ HasV(RawInput(o[i], k))
              /\ <<SCHEME>> \o saver[i].urls[k] = Canonical(IdOf(RawInput(o[i], k)))

\* C19: after the last identifier of a batch has been dispatched and the run has
\* ended, the focused tab is the trigger tab, even if the active tab changed
\* while the batch was sequenced.
C19_FocusRestored ==
  \A i \in Inv :
    (o[i].pc = "done" /\ Permitted(o[i]) /\ Len(o[i].dispatched) = Len(o[i].urls))
      => o[i].focus = "trigger"

\* C20: a failure event for an accepted download counts as a failed attempt of
\* save: the monitor stops listening for that handle, and save retries after
\* the backoff or, on the third attempt, throws.
C20_FailureEventRetries ==
  \A i \in Inv :
    LET s == saver[i]
    IN  (s.events # <<>> /\ \A k \in 1..Len(s.events) : s.events[k] = "interrupted")
          => /\ s.attempts >= Len(s.events)
             /\ s.listening => dl[i].state = "in_progress"
             /\ s.pc \in {"backoff", "download", "monitor", "threw"}
             /\ s.attempts = saveMaxAttempts => s.pc = "threw"

\* C21: a permitted run without a rejected tab call makes exactly one dispatch
\* per identifier, in order; a dispatch is issued only after the one before it
\* has settled and its delay has elapsed, so at most one is in flight.
C21_SequentialDispatch ==
  \A i \in Inv :
    LET r == o[i]
        inFlight == r.tabCalls - Len(r.dispatched)
    IN  /\ inFlight \in {0, 1}
        /\ inFlight = 1 => r.pc \in {"dispatching", "failed"}
        /\ r.pc = "dispatching" => inFlight = 1
        /\ r.tabCalls <= r.delays + 1
        /\ r.delays <= Len(r.dispatched)
        /\ r.tabCalls <= Len(r.urls)
        /\ \A k \in 1..Len(r.dispatched) : r.dispatched[k] = <<SCHEME>> \o r.urls[k]
        /\ (r.pc = "done" /\ Permitted(r))
             => /\ Len(r.dispatched) = Len(r.urls)
                /\ r.tabCalls = Len(r.urls)
                /\ r.delays = Len(r.urls)

\* The second dispatch of a batch of two is in flight, after one delay.
C21_Witness ==
  \E i \in Inv :
    /\ o[i].pc = "dispatching"
    /\ Len(o[i].urls) = 2
    /\ Len(o[i].dispatched) = 1
    /\ o[i].tabCalls = 2
    /\ o[i].delays = 1

\* C22: for a non-empty extraction result the write of the record has settled
\* (done, or failed and swallowed) before the permission check starts and
\* before any dispatch; the record is in the store also when permission is then
\* denied.
C22_StoreBeforeGate ==
  \A i \in Inv :
    /\ o[i].pc = "storing"
         => /\ o[i].opened = 0 /\ o[i].prompts = 0 /\ o[i].perm = "none"
            /\ ~TouchedTabs(o[i]) /\ saver[i] = SaverIdle
    /\ (o[i].storeCalls = 1 /\ o[i].pc # "storing") => o[i].opened = 1
    /\ (o[i].perm = "denied" /\ o[i].stored)
         => store.record = CollOut(i) /\ store.writer = i

\* A playlist was stored and the user then cancelled the prompt.
C22_Witness ==
  \E i \in Inv :
    /\ o[i].perm = "denied"
    /\ o[i].stored
    /\ Len(store.record) = 2
    /\ store.writer = i

\* C23: pulltube_always_allow is monotonic. A step sets it only while a prompt
\* whose Allow was clicked with the box checked finishes its write; a grant
\* without the box, a cancel and every other step leave it as it is; once true
\* it stays true.
C23_AlwaysAllowMonotonic ==
  [][ /\ store.alwaysAllow => store'.alwaysAllow
      /\ (~store.alwaysAllow /\ store'.alwaysAllow)
           => \E p \in Inv : /\ prompt[p].st = "saving"
                              /\ prompt[p].optIn
                              /\ prompt'[p].st = "closed"
      /\ (\E p \in Inv : prompt[p].st = "open" /\ prompt'[p].st = "closed")
           => store'.alwaysAllow = store.alwaysAllow ]_vars

\* The flag is stored after an opt-in grant, and a later prompt was cancelled.
C23_Witness ==
  \E p, q \in Inv :
    /\ p # q
    /\ store.alwaysAllow
    /\ prompt[p].optIn /\ prompt[p].st = "closed"
    /\ ~prompt[q].optIn /\ prompt[q].st = "closed" /\ prompt[q].sent = 1

\* C24: on the collection path the injection is requested only after a ping
\* that failed; after a ping that was answered no injection is requested and
\* the extraction request goes to the resident content script.
C24_InjectOnlyAfterFailedProbe ==
  \A i \in Inv :
    /\ o[i].injections <= o[i].probes
    /\ o[i].probes <= 1
    /\ o[i].injections > 0 => o[i].pinged = "failed"
    /\ o[i].pc = "probing" => o[i].injections = 0 /\ o[i].requests = 0
    /\ o[i].requests > 0 => o[i].probes = 1 /\ o[i].resident
    /\ o[i].pinged = "ok"
         => o[i].injections = 0 /\ o[i].requests = 1 /\ o[i].resident

\* The ping was answered and the Collector's reply was used.
C24_Witness ==
  \E i \in Inv :
    /\ o[i].pinged = "ok"
    /\ o[i].injections = 0
    /\ o[i].path = "extracted"

\* C25: every prompt that has closed has sent exactly one terminal message, and
\* no permission wait is left pending with its listener registered once the
\* prompt it opened has closed.
C25_OneTerminalMessage ==
  \A p \in Inv :
    /\ prompt[p].sent <= 1
    /\ prompt[p].st = "closed" => prompt[p].sent = 1
    /\ (prompt[p].st = "closed" /\ msgs = <<>>) => p \notin listeners

\* The positions of the page elements that match one of the selectors and have
\* an anchor.
MatchedWithAnchor(d) ==
  {n \in 1..Len(d) :
     /\ \E k \in 1..Len(Selectors) : d[n].sel = Selectors[k]
     /\ Len(d[n].anchors) > 0}

\* The k-th smallest member of a set of positions.
NthOf(S, k) == CHOOSE n \in S : Cardinality({m \in S : m <= n}) = k

\* The elements the highest-priority selector with a match gives.
PriorityItems(d) ==
  LET Hit(k) == \E n \in 1..Len(d) : d[n].sel = Selectors[k]
      top == CHOOSE k \in 1..Len(Selectors) : Hit(k) /\ \A j \in 1..(k - 1) : ~Hit(j)
  IN  {n \in 1..Len(d) : d[n].sel = Selectors[top] /\ Len(d[n].anchors) > 0}

\* The reply of a poll that found elements, as lines.
ReplyLines(c) == Split(c.reply, NL)

\* Line k of the reply is the href, up to its first "&", of an anchor of the
\* k-th element of S.
LinesFrom(c, d, S) ==
  /\ Len(ReplyLines(c)) = Cardinality(S)
  /\ \A k \in 1..Cardinality(S) :
       \E a \in 1..Len(d[NthOf(S, k)].anchors) :
         ReplyLines(c)[k] = TruncateHref(d[NthOf(S, k)].anchors[a].href)

\* C26 as stated: a poll that finds elements takes its items from one selector,
\* the first of the list that matches; elements that only a later selector
\* matches are left out.
C26_PrioritySelector ==
  \A i \in Inv :
    (coll[i].pc = "replied" /\ Len(coll[i].reply) > 0)
      => LinesFrom(coll[i], dom[i], PriorityItems(dom[i]))

\* C26, amended: a poll that finds elements takes every element that any of the
\* selectors matches, in document order, whichever selector matched it.
C26_AllSelectors ==
  \A i \in Inv :
    (coll[i].pc = "replied" /\ Len(coll[i].reply) > 0)
      => LinesFrom(coll[i], dom[i], MatchedWithAnchor(dom[i]))

\* The reply holds an item of the second selector before one of the first.
C26_Witness ==
  \E i \in Inv :
    /\ coll[i].pc = "replied"
    /\ Len(ReplyLines(coll[i])) = 2
    /\ dom[i][1].sel = Selectors[2]
    /\ \E n \in 2..Len(dom[i]) : dom[i][n].sel = Selectors[1] /\ Len(dom[i][n].anchors) > 0

\* C27: a terminal permission message resolves only the wait of the operation
\* whose prompt sent it.
C27_OwnPromptOnly ==
  \A i \in Inv : o[i].resolved > 0 => o[i].resolvedBy = i

\* handleUrl was called with a URL of the site and a tab.
PassedCheck(r) ==
  r.pc # "idle" /\ r.path # "direct" /\ IncludesYoutube(r.url) /\ r.hasTab

\* handleUrl has not reached a call of openUrlsInPulltube yet.
InHandleUrl(r) ==
  r.pc \in {"activating", "settle", "probing", "injecting", "extracting", "storing"}

\* C28: a handleUrl invocation that passed the site and tab check calls
\* openUrlsInPulltube exactly once on whichever path it takes: not before the
\* path is decided, once when it is, and never again.
C28_HandoffStartedOnce ==
  \A i \in Inv :
    /\ o[i].opened <= 1
    /\ PassedCheck(o[i])
         => /\ InHandleUrl(o[i]) => o[i].opened = 0
            /\ ~InHandleUrl(o[i]) => o[i].opened = 1
            /\ o[i].opened = 1
                 => o[i].path \in {"single", "inject_failed", "empty_result",
                                   "extract_error", "extracted", "parse_error",
                                   "activate_error"}

\* The tab activation was rejected and the handoff pipeline ran once.
C28_Witness ==
  \E i \in Inv :
    /\ PassedCheck(o[i])
    /\ o[i].path = "activate_error"
    /\ o[i].opened = 1
    /\ o[i].pc = "done"

\* The action button was clicked on a page outside the site.
OffSite(r) == r.pc # "idle" /\ r.path # "direct" /\ ~IncludesYoutube(r.url)

\* C29: a click on a page outside the site replays the stored record: its
\* identifiers are dispatched in stored order behind the permission check and
\* the record is left as it is; with no record stored there is no prompt and no
\* handoff, only the debug popup.
C29_ReplayStored ==
  \A i \in Inv :
    OffSite(o[i])
      => /\ o[i].probes = 0 /\ o[i].injections = 0 /\ o[i].requests = 0
         /\ o[i].storeCalls = 0 /\ store.writer = 0
         /\ (o[i].pc # "stored_get" /\ store.record = Undefined)
              => /\ o[i].pc = "done" /\ o[i].popup
                 /\ o[i].opened = 0 /\ o[i].prompts = 0 /\ prompt[i] = PromptNone
                 /\ ~TouchedTabs(o[i]) /\ saver[i] = SaverIdle
         /\ (o[i].pc # "stored_get" /\ store.record # Undefined)
              => /\ ~o[i].popup
                 /\ o[i].opened = 1
                 /\ TouchedTabs(o[i]) => Permitted(o[i])
                 /\ Len(o[i].dispatched) <= Len(store.record)
                 /\ \A k \in 1..Len(o[i].dispatched) :
                      o[i].dispatched[k] = Canonical(IdOf(store.record[k]))
                 /\ (o[i].pc = "done" /\ Permitted(o[i]))
                      => Len(o[i].dispatched) = Len(store.record)

\* A stored record of two identifiers was replayed.
C29_Witness ==
  \E i \in Inv :
    /\ OffSite(o[i])
    /\ o[i].pc = "done"
    /\ Len(o[i].dispatched) = 2
    /\ o[i].dispatched[1] # o[i].dispatched[2]
    /\ store.writer = 0

\* C30: the record is written only by an invocation that got a non-empty reply
\* from the Collector; an invocation on any other path makes no write.
C30_OnlyExtractionWrites ==
  /\ store.writer # 0
       => /\ o[store.writer].path = "extracted"
          /\ o[store.writer].requests = 1
          /\ Len(o[store.writer].response) > 0
          /\ o[store.writer].response # Null
  /\ \A i \in Inv :
       /\ o[i].storeCalls > 0 => (o[i].requests = 1 /\ Len(o[i].extracted) > 0
                                  /\ o[i].extracted # <<<<>>>>)
       /\ o[i].path \in {"single", "inject_failed", "empty_result", "extract_error",
                          "rejected", "stored", "no_record", "activate_error",
                          "parse_error", "direct"}
            => o[i].storeCalls = 0 /\ store.writer = 0

\* The Collector replied empty, the page URL was handed off and the record of
\* an earlier session is still there.
C30_Witness ==
  \E i \in Inv :
    /\ o[i].path = "empty_result"
    /\ o[i].pc = "done"
    /\ store.writer = 0
    /\ store.record # Undefined

====
